---- MODULE Spec2Model ----
(***************************************************************************)
(* A model of the ray tracer's rendering core: the hit-record constructor, *)
(* sphere and world intersection (shape.hpp), the three materials          *)
(* (material.hpp), the recursive integrator, the pixel sampler and the     *)
(* render loop (raytracer.cpp, color.hpp), the image writer (png.hpp),     *)
(* the cameras (camera.hpp) and the thread-local random source             *)
(* (random.hpp).                                                           *)
(*                                                                         *)
(* Arithmetic is exact.  A `real` is a number (p + c*sqrt(d)) / q with     *)
(* integers p, c, d >= 0, q > 0, so that the square roots taken by         *)
(* sphere::hit and glm::normalize are compared without rounding; q = 0     *)
(* stands for +infinity (std::numeric_limits<real>::infinity()).           *)
(***************************************************************************)
EXTENDS Integers, Sequences, FiniteSets, TLC

VARIABLES
    pc,          \* which operation is running, and where it stands
    call,        \* the arguments of the operation in progress
    ret,         \* the value returned by a finished single-step operation
    hit,         \* world::hit: the local `hit` (NoHit = std::nullopt)
    t_nearest,   \* world::hit: the shrinking upper bound
    obj_idx,     \* world::hit: position of the range-for over objects_
    depth,       \* color_in_direction: the depth argument of the current call
    frames,      \* color_in_direction: scattered.color of each suspended call
    color,       \* color_in_direction: the value being returned
    n_hit,       \* number of world.hit calls of the top-level call so far
    n_scatter,   \* number of material scatter calls so far
    n_sky,       \* number of background evaluations so far
    path,        \* history: the scatter events of the path, then how it ended
    grid_i,      \* sample_at: the loop variable i
    grid_j,      \* sample_at: the loop variable j
    pixel,       \* sample_at: the local `color`, the accumulated colour
    traced,      \* history: the samples traced so far, as [n, total, i, j, u, v]
                 \* (their number, the sum of their colours, the last one)
    raw_bytes,   \* run: the pixel buffer
    row,         \* run: the loop variable row
    column,      \* run: the loop variable column
    rendered,    \* history: the pixels sampled so far, as [x, y, color]
    os_good,     \* the output stream: TRUE while no operation on it has failed
    written,     \* history: the writes the stream was asked to make, in order
    file,        \* what has reached the output file
    deflated,    \* png::data: what deflate has consumed so far
    png_row,     \* png::data: the loop variable row
    write_idx,   \* write_to: the number of writes made so far
    thrown,      \* the exception in flight ("none": none)
    exit_status, \* what main returned ("none": still running)
    camera,      \* the camera that was constructed
    generator,   \* random_real: the generator of each thread, once seeded
    drawn        \* history: the values each thread has obtained, in order

vars == <<pc, call, ret, hit, t_nearest, obj_idx,
          depth, frames, color, n_hit, n_scatter, n_sky, path,
          grid_i, grid_j, pixel, traced,
          raw_bytes, row, column, rendered,
          os_good, written, file, deflated, png_row, write_idx, thrown,
          exit_status, camera, generator, drawn>>

worldVars == <<hit, t_nearest, obj_idx>>

cidVars == <<depth, frames, color, n_hit, n_scatter, n_sky, path>>

sampleVars == <<grid_i, grid_j, pixel, traced>>

runVars == <<raw_bytes, row, column, rendered>>

\* What the operations called on their own leave alone.
pngVars == <<os_good, written, file, deflated, png_row, write_idx, thrown,
             exit_status>>

rngVars == <<generator, drawn>>

outVars == <<runVars, pngVars, camera, rngVars>>

(***************************************************************************)
(* Bounds of the model.                                                    *)
(***************************************************************************)
MaxObjects == 2

\* The largest depth budget given to color_in_direction.
MaxDepth == 3

\* The largest sample count given to sample_at.
MaxCount == 5

\* random_real() returns a multiple of 1/RandDen.
RandDen == 2

\* The number of threads that call random_real.
NumThreads == 2

\* The largest number of calls of random_real by one thread.
MaxDraws == 2

\* The number of states of a generator.
GenMod == 8

(***************************************************************************)
(* Exact reals.  Every intermediate value is handed on as an operator      *)
(* argument, so that it is computed once.                                  *)
(***************************************************************************)
Sgn(x) == IF x > 0 THEN 1 ELSE IF x < 0 THEN -1 ELSE 0

Abs(x) == IF x < 0 THEN -x ELSE x

RECURSIVE GcdNat(_, _)
GcdNat(a, b) == IF b = 0 THEN a ELSE GcdNat(b, a % b)

Gcd(a, b) == GcdNat(Abs(a), Abs(b))

Least(S) == CHOOSE k \in S : \A j \in S : k <= j

Greatest(S) == CHOOSE k \in S : \A j \in S : j <= k

\* The largest k with k*k dividing d (d >= 1).
SqPart(d) == Greatest({k \in 1..d : k * k <= d /\ d % (k * k) = 0})

\* floor(sqrt(d))
ISqrt(d) == Greatest({s \in 0..d : s * s <= d})

Infinity == [p |-> 1, c |-> 0, d |-> 0, q |-> 0]

IsInf(x) == x.q = 0

\* c*sqrt(d) with d = k*k*f is (c*k)*sqrt(f), and sqrt(1) = 1.
PullSquare(x, k) ==
    LET f == IF x.c = 0 THEN 0 ELSE x.d \div (k * k)
    IN  IF f = 0 THEN [p |-> x.p, c |-> 0, d |-> 0, q |-> x.q]
        ELSE IF f = 1 THEN [p |-> x.p + x.c * k, c |-> 0, d |-> 0, q |-> x.q]
        ELSE [p |-> x.p, c |-> x.c * k, d |-> f, q |-> x.q]

DivideBy(x, g) ==
    [p |-> x.p \div g, c |-> x.c \div g, d |-> x.d, q |-> x.q \div g]

Lowest(x) == DivideBy(x, Sgn(x.q) * Gcd(Gcd(x.p, x.c), x.q))

\* Canonical form: square-free radicand, no radicand without coefficient,
\* lowest terms, q > 0.
Norm(x) ==
    IF x.q = 0 THEN Infinity
    ELSE Lowest(PullSquare(x, IF x.c = 0 \/ x.d = 0 THEN 1 ELSE SqPart(x.d)))

Real(n, m) == Norm([p |-> n, c |-> 0, d |-> 0, q |-> m])

OfInt(n) == [p |-> n, c |-> 0, d |-> 0, q |-> 1]

\* glm::sqrt of a non-negative integer.
SqrtInt(n) == Norm([p |-> 0, c |-> 1, d |-> n, q |-> 1])

RadOf(x, y) == IF x.c # 0 THEN x.d ELSE y.d

NAddOver(x, y, g) ==
    Norm([p |-> x.p * (y.q \div g) + y.p * (x.q \div g),
          c |-> x.c * (y.q \div g) + y.c * (x.q \div g),
          d |-> RadOf(x, y), q |-> x.q * (y.q \div g)])

\* Sum and product of two numbers of the same field Q(sqrt d).
NAdd(x, y) == NAddOver(x, y, Gcd(x.q, y.q))

NNeg(x) == [p |-> -x.p, c |-> -x.c, d |-> x.d, q |-> x.q]

NSub(x, y) == NAdd(x, NNeg(y))

NMul(x, y) ==
    Norm([p |-> x.p * y.p + x.c * y.c * RadOf(x, y),
          c |-> x.p * y.c + x.c * y.p,
          d |-> RadOf(x, y), q |-> x.q * y.q])

Square(x) == NMul(x, x)

RECURSIVE NPow(_, _)
NPow(x, n) == IF n = 0 THEN OfInt(1) ELSE NMul(x, NPow(x, n - 1))

\* x / y for a rational y.
NDiv(x, y) == NMul(x, Real(y.q, y.p))

NDivInt(x, k) == Norm([p |-> x.p, c |-> x.c, d |-> x.d, q |-> x.q * k])

\* The sign of P/C - (m + sqrt(d))/k for P, C, k > 0 and d not a square,
\* by comparing the continued fractions term by term (s = ISqrt(d), a the
\* integer part of (m + sqrt(d))/k); no number grows beyond P, C and d.
RECURSIVE CfCmp(_, _, _, _, _, _)
CfNext(C, R, m1, k, d, s) == -CfCmp(C, R, m1, (d - m1 * m1) \div k, d, s)

CfTerm(P, C, m, k, d, s, a) ==
    IF P \div C < a THEN -1
    ELSE IF P \div C > a THEN 1
    ELSE IF P % C = 0 THEN -1
    ELSE CfNext(C, P % C, a * k - m, k, d, s)

CfCmp(P, C, m, k, d, s) == CfTerm(P, C, m, k, d, s, (m + s) \div k)

\* The sign of a finite number in canonical form.
NSign(x) ==
    IF x.c = 0 THEN Sgn(x.p)
    ELSE IF x.p = 0 \/ Sgn(x.p) = Sgn(x.c) THEN Sgn(x.c)
    ELSE Sgn(x.p) * CfCmp(Abs(x.p), Abs(x.c), 0, 1, x.d, ISqrt(x.d))

\* sgn(u) * u^2 * m: the order-preserving square of u*sqrt(m).
SignSq(u, m) == Sgn(u) * u * u * m

\* The sign of A + B for B = u*sqrt(m) - v*sqrt(n) of sign sB, with integers
\* A, u, v and distinct square-free m, n > 1: when A and B pull apart, the
\* sign of B^2 - A^2 = (u^2 m + v^2 n - A^2) - 2uv*sqrt(mn) decides.
Sign2B(A, u, m, v, n, sB) ==
    IF A = 0 THEN sB
    ELSE IF sB = 0 \/ sB = Sgn(A) THEN Sgn(A)
    ELSE IF SignSq(u * u * m + v * v * n - A * A, 1) > SignSq(2 * u * v, m * n)
         THEN sB
    ELSE IF SignSq(u * u * m + v * v * n - A * A, 1) < SignSq(2 * u * v, m * n)
         THEN Sgn(A)
    ELSE 0

Sign2(A, u, m, v, n) == Sign2B(A, u, m, v, n, Sgn(SignSq(u, m) - SignSq(v, n)))

NCmpOver(x, y, g) ==
    Sign2(x.p * (y.q \div g) - y.p * (x.q \div g),
          x.c * (y.q \div g), x.d, y.c * (x.q \div g), y.d)

\* The sign of x - y, for any two finite numbers.
NCmp(x, y) ==
    IF x.c = 0 \/ y.c = 0 \/ x.d = y.d THEN NSign(NSub(x, y))
    ELSE NCmpOver(x, y, Gcd(x.q, y.q))

NLess(x, y) ==
    IF IsInf(x) THEN FALSE
    ELSE IF IsInf(y) THEN TRUE
    ELSE NCmp(x, y) < 0

NEq(x, y) ==
    IF IsInf(x) \/ IsInf(y) THEN IsInf(x) /\ IsInf(y) ELSE NCmp(x, y) = 0

NAbs(x) == IF NSign(x) < 0 THEN NNeg(x) ELSE x

NMin(x, y) == IF NLess(y, x) THEN y ELSE x

(***************************************************************************)
(* vec3: a triple, of integers (IVec) or of reals (RVec).                  *)
(***************************************************************************)
Triple(f) == <<f[1], f[2], f[3]>>

IDot(a, b) == a[1] * b[1] + a[2] * b[2] + a[3] * b[3]

ILength2(a) == IDot(a, a)

ISub(a, b) == <<a[1] - b[1], a[2] - b[2], a[3] - b[3]>>

ToRVec(a) == <<OfInt(a[1]), OfInt(a[2]), OfInt(a[3])>>

Sum3(f) == NAdd(NAdd(f[1], f[2]), f[3])

RDot(a, b) == Sum3([i \in 1..3 |-> NMul(a[i], b[i])])

RNegV(a) == <<NNeg(a[1]), NNeg(a[2]), NNeg(a[3])>>

RAddV(a, b) == Triple([i \in 1..3 |-> NAdd(a[i], b[i])])

RSubV(a, b) == RAddV(a, RNegV(b))

RScaleV(k, a) == Triple([i \in 1..3 |-> NMul(k, a[i])])

MulV(a, b) == Triple([i \in 1..3 |-> NMul(a[i], b[i])])

RDivIntV(a, k) == Triple([i \in 1..3 |-> NDivInt(a[i], k)])

NormalizeBy(v, l2) ==
    RScaleV(Norm([p |-> 0, c |-> 1, d |-> l2.p * l2.q, q |-> l2.p]), v)

\* glm::normalize of a vector with rational components: v / sqrt(v.v).
Normalize(v) == NormalizeBy(v, RDot(v, v))

ZeroV == ToRVec(<<0, 0, 0>>)

OneV == ToRVec(<<1, 1, 1>>)

\* rt::ray, with integer origin and direction.
Ray(origin, direction) == [origin |-> origin, direction |-> direction]

\* ray::at
RayAt(ray, t) == RAddV(ToRVec(ray.origin), RScaleV(t, ToRVec(ray.direction)))

(***************************************************************************)
(* rt::hit                                                                 *)
(***************************************************************************)
NoHit == [some |-> FALSE]

FrontFaceMutant(direction, outward_normal) ==
    NSign(RDot(direction, outward_normal)) > 0

\* front_face_ = glm::dot(ray.direction(), outward_normal) < real(0.0)
FrontFace(direction, outward_normal) ==
    NSign(RDot(direction, outward_normal)) < 0

HitRecord(point, outward_normal, material, t, front_face) ==
    [some       |-> TRUE,
     point      |-> point,
     normal     |-> IF front_face THEN outward_normal ELSE RNegV(outward_normal),
     material   |-> material,
     t          |-> t,
     front_face |-> front_face]

\* The constructor of rt::hit.
Hit(point, outward_normal, material, ray, t) ==
    HitRecord(point, outward_normal, material, t,
              FrontFace(ToRVec(ray.direction), outward_normal))

(***************************************************************************)
(* rt::sphere                                                              *)
(***************************************************************************)
Sphere(center, radius, material) ==
    [center |-> center, radius |-> radius, material |-> material]

RootsAround(minus_half_b, sqrt_discriminant, a) ==
    << NDivInt(NSub(minus_half_b, sqrt_discriminant), a),
       NDivInt(NAdd(minus_half_b, sqrt_discriminant), a) >>

\* The two roots, in the order of the array `roots`.
Roots(half_b, discriminant, a) ==
    RootsAround(OfInt(-half_b), SqrtInt(discriminant), a)

\* The lambda is_outside_interval.
IsOutsideInterval(t, t_min, t_max) == NLess(t, t_min) \/ NLess(t_max, t)

\* The coefficients computed at the top of sphere::hit.
Quadratic(sphere, ray) ==
    LET oc     == ISub(ray.origin, sphere.center)
        a      == ILength2(ray.direction)
        half_b == IDot(ray.direction, oc)
        c      == ILength2(oc) - sphere.radius * sphere.radius
    IN  [a |-> a, half_b |-> half_b, c |-> c,
         discriminant |-> half_b * half_b - a * c]

HitAtPoint(sphere, ray, t, point) ==
    Hit(point, RDivIntV(RSubV(point, ToRVec(sphere.center)), sphere.radius),
        sphere.material, ray, t)

\* The hit built from the candidate root t.
HitAt(sphere, ray, t) == HitAtPoint(sphere, ray, t, RayAt(ray, t))

\* std::ranges::find_if_not(roots, is_outside_interval), and what follows.
FirstCandidate(sphere, ray, roots, cands) ==
    IF cands = {} THEN NoHit ELSE HitAt(sphere, ray, roots[Least(cands)])

FindIfNot(sphere, ray, t_min, t_max, roots) ==
    FirstCandidate(sphere, ray, roots,
                   {i \in 1..2 : ~IsOutsideInterval(roots[i], t_min, t_max)})

SphereHitOf(sphere, ray, t_min, t_max, k) ==
    IF k.discriminant <= 0 THEN NoHit
    ELSE FindIfNot(sphere, ray, t_min, t_max, Roots(k.half_b, k.discriminant, k.a))

\* sphere::hit
SphereHit(sphere, ray, t_min, t_max) ==
    SphereHitOf(sphere, ray, t_min, t_max, Quadratic(sphere, ray))

(***************************************************************************)
(* random.hpp: the values a draw can return.                               *)
(***************************************************************************)
\* random_real(): a uniform value of [0, 1).
RandomReal == {Real(k, RandDen) : k \in 0..(RandDen - 1)}

\* Points that random_vec3(-1, 1) can return.
CubePoints ==
    { <<Real(-1, 1), Real(0, 1), Real(0, 1)>>,
      <<Real(-1, 1), Real(-1, 1), Real(-1, 1)>>,
      <<Real(0, 1), Real(0, 1), Real(-1, 2)>>,
      <<Real(0, 1), Real(0, 1), Real(1, 2)>>,
      <<Real(1, 2), Real(0, 1), Real(0, 1)>>,
      <<Real(0, 1), Real(-1, 2), Real(0, 1)>>,
      <<Real(0, 1), Real(1, 2), Real(1, 2)>> }

\* random_in_unit_sphere(): the loop draws until length2(point) < 1.
RandomInUnitSphere == {p \in CubePoints : NLess(RDot(p, p), OfInt(1))}

\* random_unit_vector()
RandomUnitVector == {Normalize(p) : p \in RandomInUnitSphere}

(***************************************************************************)
(* material.hpp                                                            *)
(***************************************************************************)
NoScatter == [some |-> FALSE]

\* A direction base - sqrt(k) * n; a plain vector has k = 0.
Dir(v) == [base |-> v, k |-> OfInt(0), n |-> ZeroV]

Scatter(origin, direction, attenuation) ==
    [some |-> TRUE, ray |-> [origin |-> origin, direction |-> direction],
     color |-> attenuation]

\* glm::epsilon<real>() for real = float: 2^-23.
Epsilon == Real(1, 8388608)

\* |x| < epsilon for a = |x|.  A value of at least 1/4 is settled without
\* scaling by 2^23.
LessThanEpsilon(a) ==
    IF ~NLess(a, Real(1, 4)) THEN FALSE ELSE NLess(a, Epsilon)

\* glm::epsilonEqual(x, 0, epsilon): |x - 0| < epsilon
EpsilonEqualZero(x) == LessThanEpsilon(NAbs(x))

ReflectMutant(I, N) == RAddV(I, RScaleV(NMul(RDot(N, I), OfInt(2)), N))

\* glm::reflect(I, N) = I - N * dot(N, I) * 2
Reflect(I, N) == RSubV(I, RScaleV(NMul(RDot(N, I), OfInt(2)), N))

RefractK(I, N, eta, dotNI, k) ==
    IF NSign(k) < 0 THEN Dir(ZeroV)
    ELSE [base |-> RSubV(RScaleV(eta, I), RScaleV(NMul(eta, dotNI), N)),
          k |-> k, n |-> N]

RefractDot(I, N, eta, dotNI) ==
    RefractK(I, N, eta, dotNI,
             NSub(OfInt(1), NMul(Square(eta), NSub(OfInt(1), Square(dotNI)))))

\* glm::refract(I, N, eta): with k = 1 - eta^2 (1 - dot(N, I)^2), the zero
\* vector if k < 0, else eta * I - (eta * dot(N, I) + sqrt(k)) * N.
Refract(I, N, eta) == RefractDot(I, N, eta, RDot(N, I))

ScatterOriginMutant(ray, h) == ToRVec(ray.origin)

\* The origin given to scattered_ray by every material.
ScatterOrigin(ray, h) == h.point

LambertianDirection(albedo, ray, h, direction) ==
    Scatter(ScatterOrigin(ray, h),
            Dir(IF \A i \in 1..3 : EpsilonEqualZero(direction[i])
                THEN h.normal ELSE direction),
            albedo)

\* lambertian::scatter; unit is the value of random_unit_vector().
LambertianScatter(albedo, ray, h, unit) ==
    LambertianDirection(albedo, ray, h, RAddV(h.normal, unit))

MetalAbsorbsMutant(direction, normal) == NSign(RDot(direction, normal)) <= 0

\* glm::dot(scattered_ray.direction(), hit.normal()) < real(0.0)
MetalAbsorbs(direction, normal) == NSign(RDot(direction, normal)) < 0

MetalReflected(albedo, ray, h, reflected_direction) ==
    IF MetalAbsorbs(reflected_direction, h.normal) THEN NoScatter
    ELSE Scatter(ScatterOrigin(ray, h), Dir(reflected_direction), albedo)

\* metal::scatter
MetalScatter(albedo, ray, h) ==
    MetalReflected(albedo, ray, h,
                   Reflect(Normalize(ToRVec(ray.direction)), h.normal))

ReflectanceR0(cosine, r0) ==
    NAdd(r0, NMul(NSub(OfInt(1), r0), NPow(NSub(OfInt(1), cosine), 5)))

\* dielectric::reflectance, for a rational eta.
Reflectance(cosine, eta) ==
    ReflectanceR0(cosine, Square(NDiv(NSub(OfInt(1), eta), NAdd(OfInt(1), eta))))

SinExceeds(eta, sin2) ==
    /\ NSign(sin2) >= 0
    /\ NLess(OfInt(1), NMul(Square(eta), sin2))

MustReflectMutant(eta, cos_theta) == FALSE

\* eta * sin_theta > 1 with sin_theta = sqrt(1 - cos_theta^2): the square
\* root of a negative number is a NaN, which no comparison accepts;
\* otherwise both sides are non-negative and are compared squared.
MustReflect(eta, cos_theta) == SinExceeds(eta, NSub(OfInt(1), Square(cos_theta)))

DielectricDirection(ray, h, draw, eta, unit_direction, cos_theta) ==
    Scatter(ScatterOrigin(ray, h),
            IF MustReflect(eta, cos_theta) \/ NLess(draw, Reflectance(cos_theta, eta))
            THEN Dir(Reflect(unit_direction, h.normal))
            ELSE Refract(unit_direction, h.normal, eta),
            OneV)

DielectricAngles(ray, h, draw, eta, unit_direction) ==
    DielectricDirection(ray, h, draw, eta, unit_direction,
                        NMin(RDot(RNegV(unit_direction), h.normal), OfInt(1)))

\* dielectric::scatter; draw is the value of random_real().
DielectricScatter(refractive_index, ray, h, draw) ==
    DielectricAngles(ray, h, draw,
                     IF h.front_face THEN NDiv(OfInt(1), refractive_index)
                                     ELSE refractive_index,
                     Normalize(ToRVec(ray.direction)))

\* The materials constructed by run().
Materials ==
    [ matte_white   |-> [kind |-> "lambertian", albedo |-> OneV],
      matte_grey    |-> [kind |-> "lambertian",
                         albedo |-> <<Real(1, 2), Real(1, 2), Real(1, 2)>>],
      metallic_gold |-> [kind |-> "metal",
                         albedo |-> <<Real(4, 5), Real(3, 5), Real(1, 5)>>],
      glass         |-> [kind |-> "dielectric", index |-> Real(38, 25)] ]

MaterialNames == {"matte_white", "matte_grey", "metallic_gold", "glass"}

(***************************************************************************)
(* Inputs.                                                                 *)
(***************************************************************************)
Origins == {<<0, 0, 0>>, <<0, 0, 3>>}

Directions == {<<0, 0, 1>>, <<0, 0, 2>>, <<0, 1, 2>>, <<0, 0, -1>>, <<0, -1, 0>>}

Rays == {Ray(o, d) : o \in Origins, d \in Directions}

Spheres ==
    { Sphere(<<0, 0, 3>>, 1, "glass"),
      Sphere(<<0, 0, 6>>, 2, "metallic_gold"),
      Sphere(<<0, 1, 4>>, 1, "matte_white"),
      Sphere(<<0, 0, 3>>, 2, "matte_grey"),
      Sphere(<<0, 0, -3>>, 1, "matte_white") }

TMins == {OfInt(0), Real(1, 200), OfInt(2)}

TMaxs == {OfInt(2), OfInt(4), Infinity}

SeqsUpTo(S, n) == UNION {[1..k -> S] : k \in 0..n}

(***************************************************************************)
(* world::hit, one loop iteration per step.                                *)
(***************************************************************************)
ScanBoundMutant(nearest, t_max) == t_max

\* The upper bound handed to object->hit.
ScanBound(nearest, t_max) == nearest

ScanKeep(st, maybe_hit) ==
    IF maybe_hit.some THEN [hit |-> maybe_hit, t_nearest |-> maybe_hit.t] ELSE st

\* The body of the range-for: the locals hit and t_nearest after one object.
ScanStep(st, object, ray, t_min, t_max) ==
    ScanKeep(st, SphereHit(object, ray, t_min, ScanBound(st.t_nearest, t_max)))

ScanStore(st) ==
    /\ hit' = st.hit
    /\ t_nearest' = st.t_nearest

RECURSIVE ScanAll(_, _, _, _, _, _)
ScanAll(st, objects, k, ray, t_min, t_max) ==
    IF k > Len(objects) THEN st
    ELSE ScanAll(ScanStep(st, objects[k], ray, t_min, t_max), objects, k + 1,
                 ray, t_min, t_max)

\* world::hit as one call.
WorldHit(objects, ray, t_min, t_max) ==
    ScanAll([hit |-> NoHit, t_nearest |-> t_max], objects, 1, ray, t_min, t_max).hit

WorldHitCall ==
    /\ pc = "idle"
    /\ \E ray \in Rays, t_min \in TMins, t_max \in TMaxs,
          objects \in SeqsUpTo(Spheres, MaxObjects) :
          call' = [op |-> "world.hit", ray |-> ray, t_min |-> t_min,
                   t_max |-> t_max, objects |-> objects]
    /\ pc' = "world.scan"
    /\ hit' = NoHit
    /\ t_nearest' = call'.t_max
    /\ obj_idx' = 1
    /\ UNCHANGED <<outVars, ret, cidVars, sampleVars>>

WorldHitIter ==
    /\ pc = "world.scan"
    /\ obj_idx <= Len(call.objects)
    /\ ScanStore(ScanStep([hit |-> hit, t_nearest |-> t_nearest],
                          call.objects[obj_idx], call.ray, call.t_min, call.t_max))
    /\ obj_idx' = obj_idx + 1
    /\ UNCHANGED <<outVars, pc, call, ret, cidVars, sampleVars>>

WorldHitReturn ==
    /\ pc = "world.scan"
    /\ obj_idx > Len(call.objects)
    /\ ret' = hit
    /\ pc' = "world.done"
    /\ UNCHANGED <<outVars, call, worldVars, cidVars, sampleVars>>

(***************************************************************************)
(* sphere::hit and the hit constructor called on their own.                *)
(***************************************************************************)
SphereHitCall ==
    /\ pc = "idle"
    /\ \E ray \in Rays, t_min \in TMins, t_max \in TMaxs, sphere \in Spheres :
          /\ call' = [op |-> "sphere.hit", ray |-> ray, t_min |-> t_min,
                      t_max |-> t_max, sphere |-> sphere]
          /\ ret' = SphereHit(sphere, ray, t_min, t_max)
    /\ pc' = "sphere.done"
    /\ UNCHANGED <<outVars, worldVars, cidVars, sampleVars>>

Normals ==
    {<<0, 0, 1>>, <<0, 0, -1>>, <<0, 1, 0>>, <<1, 0, 0>>, <<0, -1, 0>>,
     <<1, 1, 0>>, <<0, 0, 0>>}

Points == {<<0, 0, 2>>, <<1, 0, 1>>}

HitConstruct ==
    /\ pc = "idle"
    /\ \E ray \in Rays, n \in Normals, p \in Points, t \in {OfInt(1), OfInt(2)} :
          /\ call' = [op |-> "hit", ray |-> ray, outward_normal |-> ToRVec(n),
                      point |-> ToRVec(p), t |-> t]
          /\ ret' = Hit(ToRVec(p), ToRVec(n), "matte_white", ray, t)
    /\ pc' = "hit.done"
    /\ UNCHANGED <<outVars, worldVars, cidVars, sampleVars>>

(***************************************************************************)
(* material::scatter called with any incoming ray and any hit record.      *)
(***************************************************************************)
\* Outward normals of unit length.
UnitNormals == {<<0, 0, 1>>, <<0, 0, -1>>, <<0, 1, 0>>, <<0, -1, 0>>, <<1, 0, 0>>}

\* Hit records: built by the constructor from an outward normal and the
\* ray that was intersected.
HitRecords ==
    {Hit(ToRVec(p), ToRVec(n), m, r, OfInt(1)) :
        p \in Points, n \in UnitNormals, m \in MaterialNames,
        r \in {Ray(<<0, 0, 0>>, d) : d \in Directions}}

LambertianScatterCall ==
    /\ pc = "idle"
    /\ \E ray \in Rays, h \in HitRecords, unit \in RandomUnitVector :
          /\ Materials[h.material].kind = "lambertian"
          /\ call' = [op |-> "lambertian.scatter", ray |-> ray, hit |-> h,
                      unit |-> unit]
          /\ ret' = LambertianScatter(Materials[h.material].albedo, ray, h, unit)
    /\ pc' = "scatter.done"
    /\ UNCHANGED <<outVars, worldVars, cidVars, sampleVars>>

MetalScatterCall ==
    /\ pc = "idle"
    /\ \E ray \in Rays, h \in HitRecords :
          /\ Materials[h.material].kind = "metal"
          /\ call' = [op |-> "metal.scatter", ray |-> ray, hit |-> h]
          /\ ret' = MetalScatter(Materials[h.material].albedo, ray, h)
    /\ pc' = "scatter.done"
    /\ UNCHANGED <<outVars, worldVars, cidVars, sampleVars>>

\* The square roots that occur in the components of a vector.
Radicands(v) == {v[i].d : i \in {j \in 1..3 : v[j].c # 0}}

\* Hit records of the ray itself, with the metal as material: those of
\* sphere::hit, and those the constructor builds from a unit outward
\* normal.  Kept are the hits whose normal lies in the field of the ray's
\* unit direction.
MetalHitsOf(ray) ==
    {h \in {SphereHit(Sphere(s.center, s.radius, "metallic_gold"), ray, lo, hi) :
               s \in Spheres, lo \in TMins, hi \in TMaxs}
           \cup {Hit(ToRVec(p), ToRVec(n), "metallic_gold", ray, OfInt(1)) :
                    p \in Points, n \in UnitNormals} :
        /\ h.some
        /\ Cardinality(Radicands(h.normal)
                       \cup Radicands(Normalize(ToRVec(ray.direction)))) <= 1}

\* hit.material().scatter(ray, hit) for a metal, as color_in_direction calls
\* it: with the hit of that very ray.
MetalAfterHitCall ==
    /\ pc = "idle"
    /\ \E ray \in Rays :
          \E h \in MetalHitsOf(ray) :
             /\ call' = [op |-> "metal.scatter", ray |-> ray, hit |-> h]
             /\ ret' = MetalScatter(Materials[h.material].albedo, ray, h)
    /\ pc' = "metal.done"
    /\ UNCHANGED <<outVars, worldVars, cidVars, sampleVars>>

DielectricScatterCall ==
    /\ pc = "idle"
    /\ \E ray \in Rays, h \in HitRecords, draw \in RandomReal :
          /\ Materials[h.material].kind = "dielectric"
          /\ call' = [op |-> "dielectric.scatter", ray |-> ray, hit |-> h,
                      draw |-> draw]
          /\ ret' = DielectricScatter(Materials[h.material].index, ray, h, draw)
    /\ pc' = "scatter.done"
    /\ UNCHANGED <<outVars, worldVars, cidVars, sampleVars>>

(***************************************************************************)
(* raytracer.cpp: color_in_direction.  Every recursive call is entered by  *)
(* one step and left by one step.  The ray of a recursive call is drawn    *)
(* from Rays instead of being computed from the scattered ray.             *)
(***************************************************************************)
\* The world handed to color_in_direction: one sphere of each of the
\* materials of run().
Scene ==
    << Sphere(<<0, 0, 3>>, 1, "glass"),
       Sphere(<<0, 0, 6>>, 2, "metallic_gold"),
       Sphere(<<0, 1, 4>>, 1, "matte_white"),
       Sphere(<<0, 0, -3>>, 1, "matte_grey") >>

\* constexpr real t_min = real(0.5e-2)
t_min == Real(1, 200)

Black == ZeroV

\* lerp(from, to, t) = (1 - t) * from + t * to
Lerp(from, to, t) == RAddV(RScaleV(NSub(OfInt(1), t), from), RScaleV(t, to))

Gradient(direction) ==
    Lerp(<<Real(1, 2), Real(7, 10), OfInt(1)>>, OneV,
         NMul(Real(1, 2), NAdd(direction[2], OfInt(1))))

\* The background gradient of a ray that hits nothing.
Background(ray) == Gradient(Normalize(ToRVec(ray.direction)))

\* hit.material().scatter(ray, hit), with the random values it may draw.
MaterialScatter(ray, h, unit, draw) ==
    CASE Materials[h.material].kind = "lambertian" ->
             LambertianScatter(Materials[h.material].albedo, ray, h, unit)
      [] Materials[h.material].kind = "metal" ->
             MetalScatter(Materials[h.material].albedo, ray, h)
      [] Materials[h.material].kind = "dielectric" ->
             DielectricScatter(Materials[h.material].index, ray, h, draw)

\* What one call does after the depth test: the kind of outcome, with the
\* attenuation of a scatter or the colour of the background.
AfterScatter(maybe_scattered) ==
    IF maybe_scattered.some
    THEN [kind |-> "scattered", color |-> maybe_scattered.color]
    ELSE [kind |-> "absorbed", color |-> Black]

AfterHit(ray, unit, draw, maybe_hit) ==
    IF maybe_hit.some
    THEN AfterScatter(MaterialScatter(ray, maybe_hit, unit, draw))
    ELSE [kind |-> "miss", color |-> Background(ray)]

Trace(ray, unit, draw) ==
    AfterHit(ray, unit, draw, WorldHit(Scene, ray, t_min, Infinity))

DepthExhaustedMutant(d) == FALSE

\* if (depth == 0)
DepthExhausted(d) == d = 0

NextDepthMutant(d) == d

\* depth - 1.  depth is a std::uint32_t: a result below 0 here is the
\* wrap-around to 2^32 - 1 there.
NextDepth(d) == d - 1

CombineMutant(attenuation, inner) == RAddV(attenuation, inner)

\* scattered.color * color_in_direction(...)
Combine(attenuation, inner) == MulV(attenuation, inner)

ColorCall ==
    /\ pc = "idle"
    /\ \E d \in 0..MaxDepth :
          /\ call' = [op |-> "color_in_direction", depth |-> d]
          /\ depth' = d
    /\ pc' = "color.enter"
    /\ frames' = <<>>
    /\ path' = <<>>
    /\ color' = Black
    /\ n_hit' = 0
    /\ n_scatter' = 0
    /\ n_sky' = 0
    /\ UNCHANGED <<outVars, ret, worldVars, sampleVars>>

\* The call returns black at once.
ColorExhausted ==
    /\ pc = "color.enter"
    /\ DepthExhausted(depth)
    /\ color' = Black
    /\ path' = Append(path, [kind |-> "exhausted"])
    /\ pc' = "color.return"
    /\ UNCHANGED <<outVars, call, ret, worldVars, sampleVars, depth, frames, n_hit, n_scatter, n_sky>>

ColorTraced(ray, out) ==
    /\ n_hit' = n_hit + 1
    /\ n_scatter' = IF out.kind = "miss" THEN n_scatter ELSE n_scatter + 1
    /\ n_sky' = IF out.kind = "miss" THEN n_sky + 1 ELSE n_sky
    /\ path' = Append(path, [kind |-> out.kind, color |-> out.color, ray |-> ray])
    /\ IF out.kind = "scattered"
       THEN /\ frames' = Append(frames, out.color)
            /\ depth' = NextDepth(depth)
            /\ UNCHANGED <<pc, color>>
       ELSE /\ color' = out.color
            /\ pc' = "color.return"
            /\ UNCHANGED <<frames, depth>>

\* The call intersects the scene, then scatters and recurses, or returns
\* black (absorbed) or the background (no hit).
ColorTrace ==
    /\ pc = "color.enter"
    /\ ~DepthExhausted(depth)
    /\ n_hit <= MaxDepth + 1
    /\ \E ray \in Rays, unit \in RandomUnitVector, draw \in RandomReal :
          ColorTraced(ray, Trace(ray, unit, draw))
    /\ UNCHANGED <<outVars, call, ret, worldVars, sampleVars>>

\* A suspended call multiplies the value returned to it and returns.
ColorReturn ==
    /\ pc = "color.return"
    /\ frames # <<>>
    /\ color' = Combine(frames[Len(frames)], color)
    /\ frames' = SubSeq(frames, 1, Len(frames) - 1)
    /\ UNCHANGED <<outVars, pc, call, ret, worldVars, sampleVars, depth, n_hit, n_scatter, n_sky, path>>

\* The top-level call returns.
ColorDone ==
    /\ pc = "color.return"
    /\ frames = <<>>
    /\ ret' = [some |-> TRUE, color |-> color]
    /\ pc' = "color.done"
    /\ UNCHANGED <<outVars, call, worldVars, cidVars, sampleVars>>

(***************************************************************************)
(* raytracer.cpp: sample_at, one traced ray per step.  The colour that     *)
(* color_in_direction returns for a ray is an input.                       *)
(***************************************************************************)
NoSample == [n |-> 0, total |-> ZeroV, i |-> 0, j |-> 0, u |-> OfInt(0), v |-> OfInt(0)]

\* Image sizes, and the colours a traced ray may return.
Images == {[width |-> 2, height |-> 1], [width |-> 2, height |-> 3]}

Radiances == {OneV, <<Real(1, 2), Real(7, 10), OfInt(1)>>}

\* static_cast<std::uint32_t>(std::ceil(std::sqrt(count)))
GridSize(count) == Least({g \in 0..count : g * g >= count})

\* delta_u = 1 / width, and delta_v = 1 / height
Delta(size) == Real(1, size)

\* u0 = x * delta_u, and v0 = y * delta_v
Base(x, size) == NMul(OfInt(x), Delta(size))

\* du = delta_u / grid_size, and dv = delta_v / grid_size
SubDelta(size, grid_size) == NDivInt(Delta(size), grid_size)

\* u = u0 + (i * du * random_real()), and v likewise
Jitter(base, k, sub_delta, random) ==
    NAdd(base, NMul(NMul(OfInt(k), sub_delta), random))

WeightedMutant(radiance, count, grid_size) == RDivIntV(radiance, grid_size * grid_size)

\* color_in_direction(ray, world, max_depth) / static_cast<real>(count)
Weighted(radiance, count, grid_size) == RDivIntV(radiance, count)

SampleCall ==
    /\ pc = "idle"
    /\ \E image \in Images, count \in 1..MaxCount,
          method \in {"single", "stratified"} :
          \E x \in 0..(image.width - 1), y \in 0..(image.height - 1) :
             call' = [op |-> "sample_at", x |-> x, y |-> y, width |-> image.width,
                      height |-> image.height, count |-> count, method |-> method,
                      grid_size |-> GridSize(count)]
    /\ pc' = "sample.enter"
    /\ grid_i' = 0
    /\ grid_j' = 0
    /\ pixel' = ZeroV
    /\ traced' = NoSample
    /\ UNCHANGED <<outVars, ret, worldVars, cidVars>>

Record(k, l, u, v, radiance) ==
    [n |-> traced.n + 1, total |-> RAddV(traced.total, radiance),
     i |-> k, j |-> l, u |-> u, v |-> v]

\* method == sample_method::single: one ray at (u0, v0), returned as it is.
SampleSingle ==
    /\ pc = "sample.enter"
    /\ call.method = "single"
    /\ \E radiance \in Radiances :
          /\ traced' = Record(0, 0, Base(call.x, call.width),
                              Base(call.y, call.height), radiance)
          /\ ret' = [some |-> TRUE, color |-> radiance]
    /\ pc' = "sample.done"
    /\ UNCHANGED <<outVars, call, worldVars, cidVars, grid_i, grid_j, pixel>>

\* One iteration of the inner loop, and the loop headers that follow it.
SampleStratified ==
    /\ pc = "sample.enter"
    /\ call.method = "stratified"
    /\ grid_i < call.grid_size
    /\ \E random_u \in RandomReal, random_v \in RandomReal, radiance \in Radiances :
          /\ traced' = Record(grid_i, grid_j,
                              Jitter(Base(call.x, call.width), grid_i,
                                     SubDelta(call.width, call.grid_size), random_u),
                              Jitter(Base(call.y, call.height), grid_j,
                                     SubDelta(call.height, call.grid_size), random_v),
                              radiance)
          /\ pixel' = RAddV(pixel, Weighted(radiance, call.count, call.grid_size))
    /\ grid_j' = IF grid_j + 1 < call.grid_size THEN grid_j + 1 ELSE 0
    /\ grid_i' = IF grid_j + 1 < call.grid_size THEN grid_i ELSE grid_i + 1
    /\ UNCHANGED <<outVars, pc, call, ret, worldVars, cidVars>>

\* The stratified loops are over: return color.
SampleReturn ==
    /\ pc = "sample.enter"
    /\ call.method = "stratified"
    /\ grid_i >= call.grid_size
    /\ ret' = [some |-> TRUE, color |-> pixel]
    /\ pc' = "sample.done"
    /\ UNCHANGED <<outVars, call, worldVars, cidVars, sampleVars>>

(***************************************************************************)
(* color.hpp and the render loop of run().  The colour that sample_at      *)
(* returns for a pixel is an input.                                        *)
(***************************************************************************)
\* color_max = 256 - epsilon * 128, with epsilon = 2^-23
color_max == Real(16777215, 65536)

\* glm::clamp(x, lo, hi) = min(max(x, lo), hi)
Clamp(x, lo, hi) == IF NLess(x, lo) THEN lo ELSE IF NLess(hi, x) THEN hi ELSE x

\* static_cast<std::uint8_t> of a rational in [0, 256): the fraction is dropped.
Truncate(x) == x.p \div x.q

ToByte(x) == Truncate(NMul(color_max, Clamp(x, OfInt(0), OfInt(1))))

\* std::numeric_limits<std::uint8_t>::max()
Uint8Max == 255

\* to_rgba
ToRgba(c) == <<ToByte(c[1]), ToByte(c[2]), ToByte(c[3]), Uint8Max>>

\* png::image::uncompressed_size
UncompressedSize(width, height) == width * (32 \div 8) * height

InsertAtEndMutant(bytes, rgba) == rgba \o bytes

\* raw_bytes.insert(raw_bytes.end(), rgba.begin(), rgba.end())
InsertAtEnd(bytes, rgba) == bytes \o rgba

\* Colours that sample_at may return: inside [0, 1], and outside it.
PixelColors ==
    { <<Real(1, 2), Real(7, 10), OfInt(1)>>,
      <<Real(3, 2), Real(-1, 4), OfInt(0)>> }

RunCall ==
    /\ pc = "idle"
    /\ \E image \in Images :
          call' = [op |-> "run", width |-> image.width, height |-> image.height]
    /\ pc' = "run.render"
    /\ raw_bytes' = <<>>
    /\ row' = 0
    /\ column' = 0
    /\ rendered' = <<>>
    /\ os_good' = TRUE
    /\ written' = <<>>
    /\ file' = <<>>
    /\ deflated' = <<>>
    /\ png_row' = 0
    /\ write_idx' = 0
    /\ thrown' = "none"
    /\ exit_status' = "none"
    /\ UNCHANGED <<rngVars, camera, ret, worldVars, cidVars, sampleVars>>

\* One iteration of the inner loop, and the loop headers that follow it.
RenderPixel ==
    /\ pc = "run.render"
    /\ row < call.height
    /\ \E c \in PixelColors :
          /\ raw_bytes' = InsertAtEnd(raw_bytes, ToRgba(c))
          /\ rendered' = Append(rendered, [x |-> column, y |-> row, color |-> c])
    /\ column' = IF column + 1 < call.width THEN column + 1 ELSE 0
    /\ row' = IF column + 1 < call.width THEN row ELSE row + 1
    /\ UNCHANGED <<rngVars, camera, pngVars, pc, call, ret, worldVars, cidVars, sampleVars>>

\* The render loop is over: the image is built from the buffer.
RenderDone ==
    /\ pc = "run.render"
    /\ row >= call.height
    /\ pc' = "run.open"
    /\ UNCHANGED <<rngVars, camera, pngVars, call, ret, worldVars, cidVars, sampleVars, runVars>>

(***************************************************************************)
(* png.hpp: write_to, with the end of run() and main().  A step of zlib    *)
(* and an operation on the stream succeed or fail as the environment       *)
(* decides.                                                                *)
(***************************************************************************)
Tok(chunk, part, value) == [chunk |-> chunk, part |-> part, value |-> value]

\* std::byteswap on a little-endian host: the four bytes, most significant
\* first.
BigEndian(n) ==
    <<(n \div 16777216) % 256, (n \div 65536) % 256, (n \div 256) % 256, n % 256>>

\* png::signature
Signature == <<137, 80, 78, 71, 13, 10, 26, 10>>

\* The header built by write_to.
Header(width, height) ==
    [width |-> width, height |-> height, bit_depth |-> 8, color_type |-> 6,
     compression_method |-> 0, filter_method |-> 0, interlace_method |-> 0]

\* header::write_data: two writes and five puts.
HeaderWriteData(h) ==
    << Tok("IHDR", "data", BigEndian(h.width)),
       Tok("IHDR", "data", BigEndian(h.height)),
       Tok("IHDR", "data", <<h.bit_depth>>),
       Tok("IHDR", "data", <<h.color_type>>),
       Tok("IHDR", "data", <<h.compression_method>>),
       Tok("IHDR", "data", <<h.filter_method>>),
       Tok("IHDR", "data", <<h.interlace_method>>) >>

\* header::hash_data: the bytes that enter the CRC.
HeaderHashData(h) ==
    BigEndian(h.width) \o BigEndian(h.height) \o
    <<h.bit_depth, h.color_type, h.compression_method, h.filter_method,
      h.interlace_method>>

\* zlib's compressBound, the size given to the vector `bytes`.
CompressBound(n) == n + (n \div 4096) + (n \div 16384) + (n \div 33554432) + 13

\* raw_bytes.subspan(row * stride, stride)
Subspan(bytes, offset, count) == SubSeq(bytes, offset + 1, offset + count)

\* What the loop of png::data::data feeds to deflate for one row.
RowInput(bytes, width, r) == <<0>> \o Subspan(bytes, r * (width * 4), width * 4)

\* The vector `bytes` of png::data: the stream deflate made of its input, in
\* a vector that keeps the size compressBound gave it.
Data(input, raw_size) == [deflate |-> input, size |-> CompressBound(raw_size)]

\* The writes of write_chunk for a chunk of the given type, length, data
\* writes and hashed content.
WriteChunk(type, length, data_writes, hashed) ==
    << Tok(type, "length", BigEndian(length)), Tok(type, "type", type) >>
    \o data_writes \o
    << Tok(type, "crc", [crc32 |-> <<type, hashed>>]) >>

WriteToMutant(h, data) ==
    WriteChunk("IHDR", 13, HeaderWriteData(h), HeaderHashData(h))
    \o << Tok("signature", "signature", Signature) >>
    \o WriteChunk("IDAT", data.size, <<Tok("IDAT", "data", data)>>, data)
    \o WriteChunk("IEND", 0, <<>>, <<>>)

\* The writes of image::write_to after the data was compressed.
WriteTo(h, data) ==
    << Tok("signature", "signature", Signature) >>
    \o WriteChunk("IHDR", 13, HeaderWriteData(h), HeaderHashData(h))
    \o WriteChunk("IDAT", data.size, <<Tok("IDAT", "data", data)>>, data)
    \o WriteChunk("IEND", 0, <<>>, <<>>)

\* The writes write_to makes for the image of the run in progress.
Writes == WriteTo(Header(call.width, call.height), Data(deflated, Len(raw_bytes)))

\* std::ofstream output(output_filepath, std::ios::binary): a file that
\* cannot be opened leaves the stream failed; nothing is thrown.
OpenOutput ==
    /\ pc = "run.open"
    /\ \E opened \in BOOLEAN : os_good' = opened
    /\ pc' = "png.deflateInit"
    /\ UNCHANGED <<rngVars, camera, call, ret, worldVars, cidVars, sampleVars, runVars,
                   written, file, deflated, png_row, write_idx, thrown, exit_status>>

Throw(what) ==
    /\ thrown' = what
    /\ pc' = "main.catch"

\* deflateInit(&stream, Z_DEFAULT_COMPRESSION)
DeflateInit ==
    /\ pc = "png.deflateInit"
    /\ \E ok \in BOOLEAN :
          IF ok THEN pc' = "png.deflate" /\ UNCHANGED thrown
                ELSE Throw("failed on deflateInit()")
    /\ png_row' = 0
    /\ deflated' = <<>>
    /\ UNCHANGED <<rngVars, camera, call, ret, worldVars, cidVars, sampleVars, runVars,
                   os_good, written, file, write_idx, exit_status>>

\* One iteration of the loop over the rows: the filter byte, then the row.
DeflateRow ==
    /\ pc = "png.deflate"
    /\ png_row < call.height
    /\ \E outcome \in {"ok", "filter fails", "row fails"} :
          CASE outcome = "ok" ->
                 /\ deflated' = deflated \o RowInput(raw_bytes, call.width, png_row)
                 /\ png_row' = png_row + 1
                 /\ UNCHANGED <<pc, thrown>>
            [] outcome = "filter fails" ->
                 /\ Throw("failed on deflate(Z_NO_FLUSH)")
                 /\ UNCHANGED <<deflated, png_row>>
            [] outcome = "row fails" ->
                 /\ Throw("failed on deflate(Z_NO_FLUSH)")
                 /\ deflated' = deflated \o <<0>>
                 /\ UNCHANGED png_row
    /\ UNCHANGED <<rngVars, camera, call, ret, worldVars, cidVars, sampleVars, runVars,
                   os_good, written, file, write_idx, exit_status>>

\* deflate(&stream, Z_FINISH) and deflateEnd(&stream)
DeflateFinish ==
    /\ pc = "png.deflate"
    /\ png_row >= call.height
    /\ \E outcome \in {"ok", "finish fails", "end fails"} :
          CASE outcome = "ok" -> pc' = "png.write" /\ UNCHANGED thrown
            [] outcome = "finish fails" -> Throw("failed on deflate(Z_FINISH)")
            [] outcome = "end fails" -> Throw("failed on deflateEnd()")
    /\ write_idx' = 0
    /\ UNCHANGED <<rngVars, camera, call, ret, worldVars, cidVars, sampleVars, runVars,
                   os_good, written, file, deflated, png_row, exit_status>>

\* One os.write or os.put: on a failed stream it does nothing; on a good
\* one the bytes reach the file, or the write fails and fails the stream.
WriteOne ==
    /\ pc = "png.write"
    /\ write_idx < Len(Writes)
    /\ written' = Append(written, Writes[write_idx + 1])
    /\ write_idx' = write_idx + 1
    /\ IF os_good
       THEN \E ok \in BOOLEAN :
               IF ok THEN file' = Append(file, Writes[write_idx + 1])
                          /\ UNCHANGED os_good
                     ELSE os_good' = FALSE /\ UNCHANGED file
       ELSE UNCHANGED <<os_good, file>>
    /\ UNCHANGED <<rngVars, camera, pc, call, ret, worldVars, cidVars, sampleVars, runVars,
                   deflated, png_row, thrown, exit_status>>

\* write_to and run return; main returns EXIT_SUCCESS.
MainReturn ==
    /\ pc = "png.write"
    /\ write_idx >= Len(Writes)
    /\ exit_status' = "EXIT_SUCCESS"
    /\ pc' = "main.exit"
    /\ UNCHANGED <<rngVars, camera, call, ret, worldVars, cidVars, sampleVars, runVars,
                   os_good, written, file, deflated, png_row, write_idx, thrown>>

\* catch (const std::exception &e): main returns EXIT_FAILURE.
MainCatch ==
    /\ pc = "main.catch"
    /\ exit_status' = "EXIT_FAILURE"
    /\ pc' = "main.exit"
    /\ UNCHANGED <<rngVars, camera, call, ret, worldVars, cidVars, sampleVars, runVars,
                   os_good, written, file, deflated, png_row, write_idx, thrown>>

(***************************************************************************)
(* camera.hpp.  A component that the code computes from 0/0 or from a NaN  *)
(* is NaN.  The parameters tried give the basis vectors rational           *)
(* components whenever the basis exists.                                   *)
(***************************************************************************)
NaN == [p |-> 0, c |-> 0, d |-> -1, q |-> 0]

FAdd(a, b) == IF a = NaN \/ b = NaN THEN NaN ELSE NAdd(a, b)

FSub(a, b) == IF a = NaN \/ b = NaN THEN NaN ELSE NSub(a, b)

FMul(a, b) == IF a = NaN \/ b = NaN THEN NaN ELSE NMul(a, b)

FAddV(a, b) == [i \in 1..3 |-> FAdd(a[i], b[i])]

FSubV(a, b) == [i \in 1..3 |-> FSub(a[i], b[i])]

FScaleV(k, a) == [i \in 1..3 |-> FMul(k, a[i])]

\* glm::cross
FCross(a, b) ==
    << FSub(FMul(a[2], b[3]), FMul(b[2], a[3])),
       FSub(FMul(a[3], b[1]), FMul(b[3], a[1])),
       FSub(FMul(a[1], b[2]), FMul(b[1], a[2])) >>

NaNV == <<NaN, NaN, NaN>>

HasNaN(v) == \E i \in 1..3 : v[i] = NaN

\* glm::normalize(v) = v * inversesqrt(dot(v, v)): for the zero vector
\* every component is 0 * infinity, a NaN.
FNormalize(v) ==
    IF HasNaN(v) THEN NaNV
    ELSE IF v = ZeroV THEN NaNV
    ELSE Normalize(v)

\* The members set by the two constructors; optical_power stands for
\* tan(vertical_fov / 2).
CameraBasis(kind, p, viewport_height, viewport_width, w, u, v) ==
    [kind        |-> kind,
     origin      |-> ToRVec(p.origin),
     vertical    |-> FScaleV(NMul(p.focal_length, viewport_height), v),
     horizontal  |-> FScaleV(NMul(p.focal_length, viewport_width), u),
     w |-> w, u |-> u, v |-> v,
     lens_radius |-> NMul(Real(1, 2), p.aperture)]

CameraTopLeft(p, cam) ==
    [top_left |->
        FSubV(FSubV(FAddV(cam.origin, FScaleV(p.focal_length, cam.w)),
                    FScaleV(Real(1, 2), cam.horizontal)),
              FScaleV(Real(1, 2), cam.vertical))] @@ cam

CameraFrom(kind, p, w, u) ==
    CameraBasis(kind, p, p.optical_power, NMul(p.aspect_ratio, p.optical_power),
                w, u, FCross(w, u))

CameraAlong(kind, p, w) == CameraFrom(kind, p, w, FNormalize(FCross(w, ToRVec(p.up))))

\* pinhole_camera::pinhole_camera and thin_lens_camera::thin_lens_camera:
\* neither tests its parameters, neither throws.
Camera(kind, p) ==
    CameraTopLeft(p, CameraAlong(kind, p, FNormalize(ToRVec(ISub(p.target, p.origin)))))

\* Points that random_in_unit_disk's loop may draw, and those it returns.
DiskDraws ==
    { <<Real(0, 1), Real(0, 1)>>, <<Real(1, 2), Real(-1, 2)>>,
      <<Real(-1, 1), Real(-1, 1)>> }

RandomInUnitDisk ==
    {pt \in DiskDraws : NLess(NAdd(Square(pt[1]), Square(pt[2])), OfInt(1))}

\* target = top_left_ + u * horizontal_ + v * vertical_
ViewTarget(cam, u, v) ==
    FAddV(FAddV(cam.top_left, FScaleV(u, cam.horizontal)), FScaleV(v, cam.vertical))

\* offset = u_ * lens_point.x + v_ * lens_point.y, for lens_point =
\* lens_radius_ * random_in_unit_disk(); a pinhole has no offset.
LensOffset(cam, disk) ==
    IF cam.kind = "pinhole" THEN ZeroV
    ELSE FAddV(FScaleV(NMul(cam.lens_radius, disk[1]), cam.u),
               FScaleV(NMul(cam.lens_radius, disk[2]), cam.v))

RayFrom(origin, target) == [origin |-> origin, direction |-> FSubV(target, origin)]

\* shoot_ray_at of either camera.
ShootRayAt(cam, u, v, disk) ==
    RayFrom(FAddV(cam.origin, LensOffset(cam, disk)), ViewTarget(cam, u, v))

\* create_parameters: sound ones, and degenerate ones (target = origin, up
\* along the view direction, aspect ratio 0 or negative).
CameraParameters ==
    [origin : {<<0, 0, 0>>}, target : {<<0, 0, 2>>, <<0, 0, 0>>},
     up : {<<0, -1, 0>>, <<0, 0, 1>>},
     optical_power : {OfInt(1)}, aspect_ratio : {OfInt(2), OfInt(0), OfInt(-1)},
     aperture : {Real(1, 2)}, focal_length : {OfInt(2)}]

CameraConstruct ==
    /\ pc = "idle"
    /\ \E kind \in {"pinhole", "thin_lens"}, p \in CameraParameters :
          /\ call' = [op |-> "camera", kind |-> kind, parameters |-> p]
          /\ camera' = Camera(kind, p)
    /\ pc' = "camera.built"
    /\ UNCHANGED <<rngVars, ret, worldVars, cidVars, sampleVars, runVars, pngVars>>

\* A ray is generated during rendering.
ShootRay ==
    /\ pc = "camera.built"
    /\ \E u \in {OfInt(0), Real(1, 2)}, v \in {OfInt(0), Real(1, 2)},
          disk \in RandomInUnitDisk :
          ret' = ShootRayAt(camera, u, v, disk)
    /\ pc' = "camera.shot"
    /\ UNCHANGED <<rngVars, call, camera, worldVars, cidVars, sampleVars, runVars, pngVars>>

(***************************************************************************)
(* random.hpp: random_real called by several threads.  The generator and  *)
(* the distribution are `static thread_local`.                             *)
(***************************************************************************)
Threads == 1..NumThreads

Unseeded == [seeded |-> FALSE, seed |-> 0, state |-> 0]

\* std::hash<std::thread::id>
ThreadHash(t) == 3 * t

\* std::mt19937 generator(seed)
Seeded(seed) == [seeded |-> TRUE, seed |-> seed % GenMod, state |-> seed % GenMod]

\* The generator advances by one draw.
Step(state) == (5 * state + 3) % GenMod

\* distribution(generator, param_type(min, max)): a value of [min, max).
Distribute(state, min, max) == NAdd(min, NMul(NSub(max, min), Real(state, GenMod)))

GeneratorOfMutant(t) == 1

\* The generator object that a call by thread t uses: its own.
GeneratorOf(t) == t

\* The generator when the call draws: constructed by the first call of
\* the thread from clock() + hash(id), and kept from then on.
Initialized(g, t, clock) ==
    IF g.seeded THEN g ELSE Seeded(clock + ThreadHash(t))

ThreadsStart ==
    /\ pc = "idle"
    /\ call' = [op |-> "random_real"]
    /\ pc' = "rng.run"
    /\ generator' = [t \in Threads |-> Unseeded]
    /\ drawn' = [t \in Threads |-> <<>>]
    /\ UNCHANGED <<ret, worldVars, cidVars, sampleVars, runVars, pngVars, camera>>

Draw(t, g) ==
    /\ drawn' = [drawn EXCEPT ![t] = Append(@, Distribute(g.state, OfInt(0), OfInt(1)))]
    /\ generator' = [generator EXCEPT ![GeneratorOf(t)] = [g EXCEPT !.state = Step(g.state)]]

\* One call of random_real() by thread t, at processor time clock.
RandomRealCall ==
    /\ pc = "rng.run"
    /\ \E t \in Threads, clock \in 0..(GenMod - 1) :
          /\ Len(drawn[t]) < MaxDraws
          /\ Draw(t, Initialized(generator[GeneratorOf(t)], t, clock))
    /\ UNCHANGED <<pc, call, ret, worldVars, cidVars, sampleVars, runVars, pngVars,
                   camera>>

(***************************************************************************)
(* Intersection: the claims.                                               *)
(***************************************************************************)
\* What each object of the finished scan reports on its own for the
\* caller's original interval.
OwnHits ==
    {h \in {SphereHit(call.objects[k], call.ray, call.t_min, call.t_max) :
                k \in 1..Len(call.objects)} : h.some}

\* C1: world.hit returns no hit exactly when no object has a hit in the
\* caller's interval, and otherwise a hit whose t is the minimum of the t
\* that the objects report on their own for the original (t_min, t_max).
C1_WorldHitIsNearest ==
    pc = "world.done" =>
        /\ ret.some <=> OwnHits # {}
        /\ ret.some =>
              /\ \E h \in OwnHits : NEq(h.t, ret.t)
              /\ \A h \in OwnHits : ~NLess(h.t, ret.t)

\* Two objects are hit, the one scanned first being the nearer one.
C1_Witness ==
    /\ pc = "world.done"
    /\ Len(call.objects) = 2
    /\ LET h1 == SphereHit(call.objects[1], call.ray, call.t_min, call.t_max)
           h2 == SphereHit(call.objects[2], call.ray, call.t_min, call.t_max)
       IN  h1.some /\ h2.some /\ NLess(h1.t, h2.t) /\ NEq(ret.t, h1.t)

\* The roots of a finished sphere.hit call lying in the open interval.
OpenRoots ==
    LET k     == Quadratic(call.sphere, call.ray)
        roots == Roots(k.half_b, k.discriminant, k.a)
    IN  {roots[i] : i \in {j \in 1..2 : /\ NLess(call.t_min, roots[j])
                                        /\ NLess(roots[j], call.t_max)}}

\* C2: sphere.hit returns no intersection when the discriminant is <= 0 or
\* neither root lies in the open interval (t_min, t_max); otherwise a hit
\* whose t is the smallest root lying in (t_min, t_max).
C2_SphereHitOpenInterval ==
    pc = "sphere.done" =>
        IF Quadratic(call.sphere, call.ray).discriminant <= 0 \/ OpenRoots = {}
        THEN ~ret.some
        ELSE /\ ret.some
             /\ \E r \in OpenRoots : NEq(r, ret.t)
             /\ \A r \in OpenRoots : ~NLess(r, ret.t)

\* C3: for every hit record, dot(ray.direction, hit.normal) <= 0; front_face
\* is true exactly when dot(ray.direction, outward_normal) < 0, and the
\* stored normal is the outward normal when front_face, else its negation.
C3_NormalAgainstRay ==
    /\ (pc \in {"hit.done", "sphere.done", "world.done"} /\ ret.some) =>
          NSign(RDot(ToRVec(call.ray.direction), ret.normal)) <= 0
    /\ pc = "hit.done" =>
          /\ ret.front_face <=>
                NSign(RDot(ToRVec(call.ray.direction), call.outward_normal)) < 0
          /\ ret.normal = IF ret.front_face THEN call.outward_normal
                                            ELSE RNegV(call.outward_normal)

\* A hit built from an outward normal that points along the ray: it is
\* stored negated.
C3_Witness ==
    /\ pc = "hit.done"
    /\ NSign(RDot(ToRVec(call.ray.direction), call.outward_normal)) > 0
    /\ ~ret.front_face
    /\ ret.normal # call.outward_normal

(***************************************************************************)
(* Materials: the claims.                                                  *)
(***************************************************************************)
\* C4: lambertian.scatter and dielectric.scatter always return a scattered
\* result; metal.scatter returns absorbed if and only if
\* dot(reflected direction, hit.normal) < 0.
C4_AbsorbedOnlyByMetal ==
    pc = "scatter.done" =>
        /\ call.op = "lambertian.scatter" => ret.some
        /\ call.op = "dielectric.scatter" => ret.some
        /\ call.op = "metal.scatter" =>
              (~ret.some <=>
                  NSign(RDot(Reflect(Normalize(ToRVec(call.ray.direction)),
                                     call.hit.normal),
                             call.hit.normal)) < 0)

\* A metal absorbs a ray that arrives from behind the surface of the hit.
C4_Witness ==
    /\ pc = "scatter.done"
    /\ call.op = "metal.scatter"
    /\ ~ret.some

\* C8: whenever a material returns a scattered result, the origin of the
\* scattered ray is hit.point, whatever the incoming ray, the hit record
\* and the random draw.
C8_ScatterOriginIsHitPoint ==
    (pc = "scatter.done" /\ ret.some) => ret.ray.origin = call.hit.point

\* A dielectric refracts a ray whose own origin is not the hit point.
C8_Witness ==
    /\ pc = "scatter.done"
    /\ call.op = "dielectric.scatter"
    /\ ret.some
    /\ ret.ray.direction.k # OfInt(0)
    /\ call.hit.point # ToRVec(call.ray.origin)
    /\ ret.ray.origin = call.hit.point

(***************************************************************************)
(* The integrator: the claims.                                             *)
(***************************************************************************)
InColor == pc \in {"color.enter", "color.return", "color.done"}

\* C5: the depth argument decreases by exactly 1 at each recursive call and
\* never goes below 0, so one top-level call with budget d makes at most d
\* scene-intersection tests and at most d scatter calls.
C5_DepthBudget ==
    InColor =>
        /\ depth >= 0
        /\ pc = "color.enter" => depth = call.depth - Len(frames)
        /\ n_hit <= call.depth
        /\ n_scatter <= call.depth

\* A path that used up the whole budget.
C5_Witness ==
    /\ pc = "color.done"
    /\ call.depth = MaxDepth
    /\ n_hit = MaxDepth
    /\ n_scatter = MaxDepth
    /\ depth = 0

\* C6: color_in_direction with depth = 0 returns exactly black, without
\* intersecting the scene, calling a material or evaluating the background.
C6_ZeroDepthIsBlack ==
    (InColor /\ call.depth = 0) =>
        /\ n_hit = 0
        /\ n_scatter = 0
        /\ n_sky = 0
        /\ pc = "color.done" => ret.color = Black

C6_Witness ==
    /\ pc = "color.done"
    /\ call.depth = 0
    /\ ret.color = Black
    /\ path = <<[kind |-> "exhausted"]>>

\* The value with which a path ends.
Terminal(event) ==
    IF event.kind = "miss" THEN Background(event.ray) ELSE Black

\* The explicit loop: a running product of the attenuations, multiplied at
\* the end of the path by the terminal value.
RECURSIVE Loop(_, _, _)
Loop(events, k, throughput) ==
    IF events[k].kind = "scattered"
    THEN Loop(events, k + 1, MulV(throughput, events[k].color))
    ELSE MulV(throughput, Terminal(events[k]))

VecEq(a, b) == \A k \in 1..3 : NEq(a[k], b[k])

\* C7: the value returned by the recursion equals the value of the explicit
\* loop that keeps a running component-wise product of the attenuations and
\* multiplies it by the terminal value (background on a miss, black on
\* absorption, black at depth 0).
C7_RecursionIsLoop ==
    pc = "color.done" => VecEq(ret.color, Loop(path, 1, OneV))

\* Two scatter events with attenuations other than white, then the sky.
C7_Witness ==
    /\ pc = "color.done"
    /\ Len(path) = 3
    /\ path[1].kind = "scattered" /\ path[1].color # OneV
    /\ path[2].kind = "scattered" /\ path[2].color # OneV
    /\ path[3].kind = "miss"
    /\ ret.color # Black

(***************************************************************************)
(* The pixel sampler: the claims.                                          *)
(***************************************************************************)
\* lo <= x < lo + width
Within(x, lo, width) == ~NLess(x, lo) /\ NLess(x, NAdd(lo, width))

\* The lower end of sub-cell k along one axis.
CellStart(x, size, grid_size, k) ==
    NAdd(Real(x, size), Real(k, size * grid_size))

\* C9: in stratified mode the sample traced for sub-cell (i, j) lies within
\* that sub-cell: u in [u0 + i*du, u0 + (i+1)*du), v in [v0 + j*dv,
\* v0 + (j+1)*dv).
C9_SampleInSubCell ==
    (pc \in {"sample.enter", "sample.done"} /\ call.method = "stratified"
        /\ traced.n > 0) =>
        /\ Within(traced.u, CellStart(call.x, call.width, call.grid_size, traced.i),
                  Real(1, call.width * call.grid_size))
        /\ Within(traced.v, CellStart(call.y, call.height, call.grid_size, traced.j),
                  Real(1, call.height * call.grid_size))

IsSquare(n) == \E k \in 0..n : k * k = n

\* C10: in stratified mode sample_at traces grid_size^2 rays with grid_size
\* = ceil(sqrt(sample_count)), each weighted by 1/sample_count, so that the
\* weights sum to 1 when sample_count is a perfect square and to more than 1
\* otherwise; in single mode it traces one ray at (u0, v0) with weight 1.
C10_SampleWeights ==
    pc = "sample.done" =>
        IF call.method = "stratified"
        THEN /\ (call.grid_size - 1) * (call.grid_size - 1) < call.count
             /\ call.count <= call.grid_size * call.grid_size
             /\ traced.n = call.grid_size * call.grid_size
             /\ VecEq(RScaleV(OfInt(call.count), ret.color), traced.total)
             /\ IF IsSquare(call.count) THEN traced.n = call.count
                                        ELSE traced.n > call.count
        ELSE /\ traced.n = 1
             /\ NEq(traced.u, Real(call.x, call.width))
             /\ NEq(traced.v, Real(call.y, call.height))
             /\ VecEq(ret.color, traced.total)

\* Five samples asked for, nine traced.
C10_Witness ==
    /\ pc = "sample.done"
    /\ call.method = "stratified"
    /\ call.count = 5
    /\ traced.n = 9

(***************************************************************************)
(* The pixel buffer: the claims.                                           *)
(***************************************************************************)
\* The four bytes of the buffer that start at offset off (counted from 0).
BytesAt(off) == SubSeq(raw_bytes, off + 1, off + 4)

\* C11: when the render loop of run has finished, the buffer holds exactly
\* width*height*4 bytes; the bytes at offsets 4*(y*width + x) .. +3 are the
\* R, G, B of pixel (x, y) and A = 255, rows from row 0 down and columns
\* left to right; every row slice [row*stride, row*stride + stride) lies
\* inside the buffer.
C11_BufferLayout ==
    (call.op = "run" /\ pc # "run.render") =>
        /\ Len(raw_bytes) = call.width * call.height * 4
        /\ Len(raw_bytes) = UncompressedSize(call.width, call.height)
        /\ Len(rendered) = call.width * call.height
        /\ \A k \in 1..Len(rendered) :
              /\ rendered[k].y = (k - 1) \div call.width
              /\ rendered[k].x = (k - 1) % call.width
              /\ BytesAt(4 * (rendered[k].y * call.width + rendered[k].x))
                    = ToRgba(rendered[k].color)
              /\ raw_bytes[4 * (rendered[k].y * call.width + rendered[k].x) + 4] = 255
        /\ \A r \in 0..(call.height - 1) :
              r * (call.width * 4) + call.width * 4 <= Len(raw_bytes)

\* An image of several rows whose pixels differ has been rendered.
C11_Witness ==
    /\ call.op = "run"
    /\ pc = "run.open"
    /\ call.height = 3
    /\ rendered[1].color # rendered[2].color
    /\ rendered[3].color # rendered[4].color
    /\ BytesAt(0) = <<127, 179, 255, 255>>
    /\ BytesAt(4) = <<255, 0, 0, 255>>

(***************************************************************************)
(* The output boundary: the claims.                                        *)
(***************************************************************************)
\* C12: a compression failure or an I/O failure (the output file cannot be
\* opened, or a write to it fails) is fatal: the process exits with failure;
\* it exits with success only if the whole image was written.
C12_FailureIsFatal ==
    pc = "main.exit" =>
        /\ (thrown # "none" \/ ~os_good) => exit_status = "EXIT_FAILURE"
        /\ exit_status = "EXIT_SUCCESS" => file = Writes

\* The kind of each write the stream was asked to make.
Kinds(ws) == [k \in 1..Len(ws) |-> <<ws[k].chunk, ws[k].part>>]

\* n copies of x.
Repeat(x, n) == [k \in 1..n |-> x]

\* C18: write_to compresses all rows before it writes anything, so that
\* nothing has been written when compression throws; when compression
\* succeeds the stream receives the signature, the IHDR chunk, the IDAT
\* chunk and the IEND chunk, in this order and each once, each chunk as
\* length, type, data, CRC.
C18_CompressThenWrite ==
    /\ pc \in {"png.deflateInit", "png.deflate", "main.catch"} => written = <<>>
    /\ (pc = "main.exit" /\ thrown # "none") => written = <<>>
    /\ (pc = "main.exit" /\ thrown = "none") =>
          Kinds(written) =
              << <<"signature", "signature">>,
                 <<"IHDR", "length">>, <<"IHDR", "type">> >>
              \o Repeat(<<"IHDR", "data">>, 7) \o
              << <<"IHDR", "crc">>,
                 <<"IDAT", "length">>, <<"IDAT", "type">>, <<"IDAT", "data">>,
                 <<"IDAT", "crc">>,
                 <<"IEND", "length">>, <<"IEND", "type">>, <<"IEND", "crc">> >>

\* The whole image reached the file.
C18_Witness ==
    /\ pc = "main.exit"
    /\ thrown = "none"
    /\ call.height = 3
    /\ Len(deflated) = 3 * (1 + 4 * call.width)
    /\ file = Writes
    /\ Len(written) = 18

(***************************************************************************)
(* The camera: the claims.                                                 *)
(***************************************************************************)
ICross(a, b) ==
    << a[2] * b[3] - b[2] * a[3], a[3] * b[1] - b[3] * a[1],
       a[1] * b[2] - b[1] * a[2] >>

\* A degenerate basis, or an aspect ratio that is not positive.
Degenerate(p) ==
    \/ p.target = p.origin
    \/ ICross(ISub(p.target, p.origin), p.up) = <<0, 0, 0>>
    \/ NSign(p.aspect_ratio) <= 0

\* C13: constructing a camera with a degenerate basis or with a non-positive
\* aspect ratio reports an error at construction, and no ray is ever
\* generated from such a camera.
C13_DegenerateCameraRejected ==
    (call.op = "camera" /\ Degenerate(call.parameters)) =>
        /\ thrown # "none"
        /\ pc # "camera.shot"

(***************************************************************************)
(* The random source: the claims.                                          *)
(***************************************************************************)
\* The state of a generator seeded with seed after n draws.
RECURSIVE StateAfter(_, _)
StateAfter(seed, n) == IF n = 0 THEN seed ELSE Step(StateAfter(seed, n - 1))

\* The value of draw k of the stream that starts from seed.
StreamValue(seed, k) == Real(StateAfter(seed, k - 1), GenMod)

\* C14: for any interleaving of the threads' calls, each call reads and
\* advances only the generator of the calling thread: the values a thread
\* has obtained are the first values of the stream of its own seed, its
\* generator has advanced by exactly its own calls, and no thread draws
\* from the stream of another.
C14_ThreadLocalStreams ==
    pc = "rng.run" =>
        \A t \in Threads :
            IF generator[t].seeded
            THEN /\ drawn[t] # <<>>
                 /\ \A k \in 1..Len(drawn[t]) :
                       NEq(drawn[t][k], StreamValue(generator[t].seed, k))
                 /\ generator[t].state =
                       StateAfter(generator[t].seed, Len(drawn[t]))
            ELSE drawn[t] = <<>>

\* Every thread has made all its calls, from different seeds.
C14_Witness ==
    /\ pc = "rng.run"
    /\ \A t \in Threads : generator[t].seeded /\ Len(drawn[t]) = MaxDraws
    /\ generator[1].seed # generator[2].seed
    /\ drawn[1] # drawn[2]

(***************************************************************************)
(* The scan of the world: the claims.                                      *)
(***************************************************************************)
\* C15: during the scan t_nearest starts at the caller's t_max and never
\* increases, and the current best hit is replaced only by a hit with
\* strictly smaller t: of two objects hit at the same t, the one scanned
\* first stays the result.
C15_StrictlyCloserReplaces ==
    [][ /\ (pc = "idle" /\ pc' = "world.scan") => t_nearest' = call'.t_max
        /\ (pc = "world.scan" /\ pc' = "world.scan") =>
              /\ ~NLess(t_nearest, t_nearest')
              /\ (hit.some /\ hit' # hit) => NLess(hit'.t, hit.t) ]_vars

(***************************************************************************)
(* The dielectric: the claims.                                             *)
(***************************************************************************)
\* eta as the claim states it.
EtaOf(h) ==
    IF h.front_face THEN NDiv(OfInt(1), Materials[h.material].index)
                    ELSE Materials[h.material].index

\* cos_theta of a finished scatter call.
CosThetaOf(ray, h) ==
    NMin(RDot(RNegV(Normalize(ToRVec(ray.direction))), h.normal), OfInt(1))

\* eta * sin_theta > 1, both sides squared.
TotalInternal(eta, cos_theta) ==
    NLess(OfInt(1), NMul(NMul(eta, eta), NSub(OfInt(1), NMul(cos_theta, cos_theta))))

\* The Schlick reflectance r0 + (1 - r0)(1 - cos_theta)^5.
Schlick(r0, x) ==
    NAdd(r0, NMul(NSub(OfInt(1), r0), NMul(x, NMul(x, NMul(x, NMul(x, x))))))

SchlickOf(eta, cos_theta) ==
    Schlick(NMul(NDiv(NSub(OfInt(1), eta), NAdd(OfInt(1), eta)),
                 NDiv(NSub(OfInt(1), eta), NAdd(OfInt(1), eta))),
            NSub(OfInt(1), cos_theta))

Reflects(eta, cos_theta, draw) ==
    TotalInternal(eta, cos_theta) \/ NLess(draw, SchlickOf(eta, cos_theta))

\* C16: dielectric.scatter uses eta = 1/index on a front face and eta =
\* index otherwise; it returns the mirror reflection if eta*sin_theta > 1,
\* whatever the draw, or if the draw is less than the Schlick reflectance,
\* and the refraction in every other case; the attenuation is (1,1,1).
C16_ReflectOrRefract ==
    (pc = "scatter.done" /\ call.op = "dielectric.scatter") =>
        /\ ret.some
        /\ ret.color = OneV
        /\ ret.ray.direction =
              IF Reflects(EtaOf(call.hit), CosThetaOf(call.ray, call.hit), call.draw)
              THEN Dir(Reflect(Normalize(ToRVec(call.ray.direction)), call.hit.normal))
              ELSE Refract(Normalize(ToRVec(call.ray.direction)), call.hit.normal,
                           EtaOf(call.hit))

\* Total internal reflection from inside the glass, with a draw above the
\* reflectance.
C16_Witness ==
    /\ pc = "scatter.done"
    /\ call.op = "dielectric.scatter"
    /\ ~call.hit.front_face
    /\ TotalInternal(EtaOf(call.hit), CosThetaOf(call.ray, call.hit))
    /\ ~NLess(call.draw, SchlickOf(EtaOf(call.hit), CosThetaOf(call.ray, call.hit)))
    /\ ret.ray.direction.k = OfInt(0)
    /\ ret.ray.direction.base # ZeroV

(***************************************************************************)
(* The metal after a hit: the claims.                                      *)
(***************************************************************************)
\* C17: when the hit record was built by the hit constructor from a unit
\* outward normal and the same incident ray, dot(reflected, hit.normal) =
\* -dot(unit direction, hit.normal) >= 0, so that metal.scatter never
\* absorbs a hit produced by sphere.hit or world.hit.
C17_MetalNeverAbsorbsOwnHit ==
    /\ pc = "metal.done" =>
          /\ ret.some
          /\ NEq(RDot(ret.ray.direction.base, call.hit.normal),
                 NNeg(RDot(Normalize(ToRVec(call.ray.direction)), call.hit.normal)))
          /\ NSign(RDot(ret.ray.direction.base, call.hit.normal)) >= 0
    /\ InColor => \A k \in 1..Len(path) : path[k].kind # "absorbed"

\* A ray that leaves a sphere from inside: the constructor turned the
\* normal against it, and the metal reflects it.
C17_Witness ==
    /\ pc = "metal.done"
    /\ ~call.hit.front_face
    /\ Radicands(call.hit.normal) # {}
    /\ ret.some
    /\ NSign(RDot(ret.ray.direction.base, call.hit.normal)) > 0

(***************************************************************************)
(* The specification.                                                      *)
(***************************************************************************)
Init ==
    /\ pc = "idle"
    /\ call = [op |-> "none"]
    /\ ret = NoHit
    /\ hit = NoHit
    /\ t_nearest = Infinity
    /\ obj_idx = 1
    /\ depth = 0
    /\ frames = <<>>
    /\ color = ZeroV
    /\ n_hit = 0
    /\ n_scatter = 0
    /\ n_sky = 0
    /\ path = <<>>
    /\ grid_i = 0
    /\ grid_j = 0
    /\ pixel = ZeroV
    /\ traced = NoSample
    /\ raw_bytes = <<>>
    /\ row = 0
    /\ column = 0
    /\ rendered = <<>>
    /\ os_good = TRUE
    /\ written = <<>>
    /\ file = <<>>
    /\ deflated = <<>>
    /\ png_row = 0
    /\ write_idx = 0
    /\ thrown = "none"
    /\ exit_status = "none"
    /\ camera = [kind |-> "none"]
    /\ generator = [t \in Threads |-> Unseeded]
    /\ drawn = [t \in Threads |-> <<>>]

Next ==
    \/ WorldHitCall
    \/ WorldHitIter
    \/ WorldHitReturn
    \/ SphereHitCall
    \/ HitConstruct
    \/ LambertianScatterCall
    \/ MetalScatterCall
    \/ DielectricScatterCall
    \/ MetalAfterHitCall
    \/ ColorCall
    \/ ColorExhausted
    \/ ColorTrace
    \/ ColorReturn
    \/ ColorDone
    \/ SampleCall
    \/ SampleSingle
    \/ SampleStratified
    \/ SampleReturn
    \/ RunCall
    \/ RenderPixel
    \/ RenderDone
    \/ OpenOutput
    \/ DeflateInit
    \/ DeflateRow
    \/ DeflateFinish
    \/ WriteOne
    \/ MainReturn
    \/ MainCatch
    \/ CameraConstruct
    \/ ShootRay
    \/ ThreadsStart
    \/ RandomRealCall

Spec == Init /\ [][Next]_vars

====
